---- MODULE Spec2Model ----
(***************************************************************************)
(* Model of tailwindplus-downloader.                                       *)
(*                                                                         *)
(*  - Spec      : main() and scrapeTailwindPlus() of tailwindplus-download.js *)
(*                as a sequential state machine; every await whose promise *)
(*                may reject is an action with an ok and a failing outcome.*)
(*  - SpecUrl   : the in-page helper findUrlBasePath applied to bounded    *)
(*                inputs.                                                  *)
(*  - SpecDiff  : the main loop of tailwindplus-diff.sh applied to two     *)
(*                bounded snapshot files, run in both directions.          *)
(*  - SpecName  : the naming of the diff files (safe_name and its       *)
(*                fallback) for the modified leaves of one run.            *)
(***************************************************************************)
EXTENDS Integers, Sequences, FiniteSets, TLC

\* ------------------------------------------------------------------ bounds
\* Categories found on the root page, Sections per Category page, Groups per
\* Section, component blocks per Group page, and the number of recoverable
\* (Category- or Group-level) failures the environment injects in one run.
NumCats == 2
NumSecs == 2
NumGroups == 2
NumComps == 2
MaxFailures == 1
\* findUrlBasePath inputs: number of URLs and code units per URL.
MaxUrls == 3
MaxUrlLen == 2
\* safe_name: modified leaves handled in one run of the script, and the last
\* second the clock reaches during the run.
MaxLeaves == 2
MaxClock == 1
\* cut -c1-200
CutWidth == 200

VARIABLES
  \* ---- tailwindplus-download.js
  pc,                \* position of the single flow of control
  productHierarchy,  \* the tree being built (scrapeTailwindPlus local)
  product,           \* index of the Category being processed
  productSection,    \* index of the Section being processed
  subSection,        \* index of the Group being processed
  error,             \* message of the exception in flight ("" when none)
  pending,           \* what the outer finally resumes: "none", "return", "throw"
  componentData,     \* value main() receives from scrapeTailwindPlus
  exitCode,          \* process exit status (-1 while running)
  outputFile,        \* tree written to options.outputPath
  browser,           \* "none", "open", "closed"
  browserCloses,     \* number of completed browser.close() calls
  rootPage,          \* "none", "open", "closed"
  productPages,      \* set of Category indices whose tab is open
  \* ---- history of the environment's answers (not read by the program)
  rootNav,           \* outcome of the root navigation
  catOutcome,        \* per Category: outcome of its navigation / extraction
  outcome,           \* per Group: outcome of navigate / evaluate / go-back
  failedBlocks,      \* per Group: component blocks whose reveal or read failed
  writes,            \* per Group: number of assignments to its node
  failures,          \* recoverable failures injected so far
  \* ---- findUrlBasePath (in-page helper of getProductNamesAndPageUrls)
  upc,               \* "idle", "call", "returned"
  urls,              \* the argument: hrefs of one root-page section
  basePath,          \* the returned prefix
  \* ---- tailwindplus-diff.sh
  dpc,               \* position in the script
  run,               \* 1: first invocation, 2: the files exchanged
  OLD_FILE,          \* --old snapshot
  NEW_FILE,          \* --new snapshot
  catKeys,           \* unread input of the category loop
  subcatKeys,        \* unread input of the subcategory loop
  groupKeys,         \* unread input of the group loop
  compKeys,          \* unread input of the component loop
  category,          \* loop variables of the script
  subcategory,
  group,
  compared,          \* paths of the "Comparing:" lines printed
  reports,           \* result lines printed: [path, kind]
  diffs,             \* files of the diffs directory written by the run
  status,            \* exit status of the script (-1 while running)
  firstRun,          \* reports and status of the first invocation
  \* ---- tailwindplus-diff.sh, naming of the diff files
  npc,               \* position in the DIFFERENCES FOUND branch
  nameArgs,          \* $category, $subcategory, $group, $component
  fileName,          \* $safe_name
  now,               \* last value read from date +%s
  pid,               \* $$
  written,           \* diffs/*.diff: [name, path of the leaf it holds]
  named              \* leaves handled so far: [path, name, fallback]

urlVars == <<upc, urls, basePath>>

nameVars == <<npc, nameArgs, fileName, now, pid, written, named>>

diffVars == <<dpc, run, OLD_FILE, NEW_FILE, catKeys, subcatKeys, groupKeys, compKeys,
              category, subcategory, group, compared, reports, diffs, status,
              firstRun>>

scrapeVars == <<pc, productHierarchy, product, productSection, subSection, error,
                pending, componentData, exitCode, outputFile, browser,
                browserCloses, rootPage, productPages, rootNav, catOutcome,
                outcome, failedBlocks, writes, failures>>

\* ------------------------------------------------------------- tree nodes
AllCats == 1..NumCats
Secs == 1..NumSecs
Groups == 1..NumGroups
AllGroupPaths == AllCats \X Secs \X Groups

\* A Group node: URL placeholder, component mapping, or {error: msg}.
UrlNode == [kind |-> "url", comps |-> {}, msg |-> ""]
MapNode(comps) == [kind |-> "map", comps |-> comps, msg |-> ""]
ErrorNode(msg) == [kind |-> "error", comps |-> {}, msg |-> msg]

NoSections == [s \in {} |-> 0]
\* A Category node: base URL, mapping of Sections, or {error: msg}.
CatUrl == [kind |-> "url", msg |-> "", sections |-> NoSections]
CatError(msg) == [kind |-> "error", msg |-> msg, sections |-> NoSections]
CatMap(sections) == [kind |-> "map", msg |-> "", sections |-> sections]

NoTree == [c \in {} |-> 0]
\* main's componentData before scrapeTailwindPlus has returned.
NoData == [returned |-> FALSE, value |-> NoTree]
Data(tree) == [returned |-> TRUE, value |-> tree]

\* Component blocks of a Group page; every block of the page is keyed by its
\* heading.
PageComponents == 1..NumComps


\* Messages of the errors the browser capability raises.
RootNavMsg == "root page navigation failed"
CatNavMsg == "product page navigation timeout"
CatEvalMsg == "product page evaluate failed"
NavMsg == "components page navigation timeout"
BackMsg == "goBack timeout"
FatalMsg == "browser error"
IOMsg == "write failed"

ctl == <<product, productSection, subSection>>
res == <<browser, browserCloses, rootPage, productPages>>
hist == <<rootNav, catOutcome, outcome, failedBlocks, writes, failures>>
out == <<componentData, exitCode, outputFile>>

InitScrape ==
  /\ pc = "parseArgs"
  /\ productHierarchy = NoTree
  /\ product = 0
  /\ productSection = 0
  /\ subSection = 0
  /\ error = ""
  /\ pending = "none"
  /\ componentData = NoData
  /\ exitCode = -1
  /\ outputFile = NoTree
  /\ browser = "none"
  /\ browserCloses = 0
  /\ rootPage = "none"
  /\ productPages = {}
  /\ rootNav = "none"
  /\ catOutcome = [c \in AllCats |-> "none"]
  /\ outcome = [p \in AllGroupPaths |-> "none"]
  /\ failedBlocks = [p \in AllGroupPaths |-> {}]
  /\ writes = [p \in AllGroupPaths |-> 0]
  /\ failures = 0

\* process.exit(code)
Exit(code) ==
  /\ pc' = "exit"
  /\ exitCode' = code

\* A rejected promise inside the outer try of scrapeTailwindPlus.
ThrowFatal(msg) ==
  /\ pc' = "outerCatch"
  /\ error' = msg

\* ------------------------------------------------------------------ main
\* parseArgs: --help returns from main, an unknown option exits with 1.
ParseArgs ==
  /\ pc = "parseArgs"
  /\ \E r \in {"help", "unknown", "ok"} :
       CASE r = "help" -> Exit(0)
         [] r = "unknown" -> Exit(1)
         [] OTHER -> pc' = "validateInputs" /\ UNCHANGED exitCode
  /\ UNCHANGED <<productHierarchy, ctl, error, pending, componentData, outputFile,
                 res, hist>>

ValidateInputs ==
  /\ pc = "validateInputs"
  /\ \E valid \in BOOLEAN :
       IF valid THEN pc' = "handleAuthentication" /\ UNCHANGED exitCode
       ELSE Exit(1)
  /\ UNCHANGED <<productHierarchy, ctl, error, pending, componentData, outputFile,
                 res, hist>>

\* handleAuthentication: no cookie file exits with 1; a failing saveCookies
\* rejects main's promise.
HandleAuthentication ==
  /\ pc = "handleAuthentication"
  /\ \E r \in {"cookies", "noCookies", "loginFailed"} :
       CASE r = "cookies" -> pc' = "launch" /\ UNCHANGED <<exitCode, error>>
         [] r = "noCookies" -> Exit(1) /\ UNCHANGED error
         [] OTHER -> pc' = "mainCatch" /\ error' = FatalMsg /\ UNCHANGED exitCode
  /\ UNCHANGED <<productHierarchy, ctl, pending, componentData, outputFile,
                 res, hist>>

\* ------------------------------------------------------ scrapeTailwindPlus
\* chromium.launch, browser.newContext, context.newPage: all before the try.
Launch ==
  /\ pc = "launch"
  /\ \E r \in {"ok", "launchFailed", "contextFailed"} :
       CASE r = "ok" ->
              /\ pc' = "addCookies"
              /\ browser' = "open"
              /\ rootPage' = "open"
              /\ UNCHANGED error
         [] r = "launchFailed" ->
              /\ pc' = "mainCatch"
              /\ error' = FatalMsg
              /\ UNCHANGED <<browser, rootPage>>
         [] OTHER ->
              /\ pc' = "mainCatch"
              /\ error' = FatalMsg
              /\ browser' = "open"
              /\ UNCHANGED rootPage
  /\ UNCHANGED <<productHierarchy, ctl, pending, out, browserCloses, productPages,
                 hist>>

AddCookies ==
  /\ pc = "addCookies"
  /\ \E ok \in BOOLEAN :
       IF ok THEN pc' = "gotoRoot" /\ UNCHANGED error
       ELSE ThrowFatal(FatalMsg)
  /\ UNCHANGED <<productHierarchy, ctl, pending, out, res, hist>>

\* await rootPage.goto(rootUrl, ...)
GotoRoot ==
  /\ pc = "gotoRoot"
  /\ \E ok \in BOOLEAN :
       IF ok THEN /\ pc' = "getProducts"
                  /\ rootNav' = "ok"
                  /\ UNCHANGED error
       ELSE /\ ThrowFatal(RootNavMsg)
            /\ rootNav' = "fail"
  /\ UNCHANGED <<productHierarchy, ctl, pending, out, res, catOutcome, outcome, failedBlocks,
                 writes, failures>>

\* productHierarchy = await getProductNamesAndPageUrls(rootPage): n Categories,
\* each mapped to its base URL.
GetProductNamesAndPageUrls ==
  /\ pc = "getProducts"
  /\ \/ \E n \in 0..NumCats :
          /\ productHierarchy' = [c \in 1..n |-> CatUrl]
          /\ pc' = "closeRoot"
          /\ UNCHANGED error
     \/ /\ ThrowFatal(FatalMsg)
        /\ UNCHANGED productHierarchy
  /\ UNCHANGED <<ctl, pending, out, res, hist>>

CloseRootPage ==
  /\ pc = "closeRoot"
  /\ \E ok \in BOOLEAN :
       IF ok THEN /\ pc' = "forProduct"
                  /\ rootPage' = "closed"
                  /\ UNCHANGED error
       ELSE /\ ThrowFatal(FatalMsg)
            /\ UNCHANGED rootPage
  /\ UNCHANGED <<productHierarchy, ctl, pending, out, browser, browserCloses,
                 productPages, hist>>

\* Head of the Category loop: the next entry of Object.entries(productHierarchy)
\* and context.newPage(), or the return statement after the last entry.
ForProduct ==
  /\ pc = "forProduct"
  /\ IF product < Len(productHierarchy)
     THEN /\ product' = product + 1
          /\ \E ok \in BOOLEAN :
               IF ok THEN /\ pc' = "gotoProduct"
                          /\ productPages' = productPages \cup {product + 1}
                          /\ UNCHANGED error
               ELSE /\ ThrowFatal(FatalMsg)
                    /\ UNCHANGED productPages
     ELSE /\ pc' = "return"
          /\ UNCHANGED <<product, productPages, error>>
  /\ UNCHANGED <<productHierarchy, productSection, subSection, pending, out,
                 browser, browserCloses, rootPage, hist>>

\* await productPage.goto(productPageUrl, ...)
GotoProduct ==
  /\ pc = "gotoProduct"
  /\ \/ /\ pc' = "getSections"
        /\ UNCHANGED <<error, catOutcome, failures>>
     \/ /\ failures < MaxFailures
        /\ pc' = "catchProduct"
        /\ error' = CatNavMsg
        /\ catOutcome' = [catOutcome EXCEPT ![product] = "navFail"]
        /\ failures' = failures + 1
  /\ UNCHANGED <<productHierarchy, ctl, pending, out, res, rootNav, outcome, failedBlocks, writes>>

\* productHierarchy[product] = await getProductSectionsAndPageUrls(productPage)
GetProductSectionsAndPageUrls ==
  /\ pc = "getSections"
  /\ \/ /\ productHierarchy' = [productHierarchy EXCEPT ![product] =
                CatMap([s \in Secs |-> [g \in Groups |-> UrlNode]])]
        /\ catOutcome' = [catOutcome EXCEPT ![product] = "ok"]
        /\ productSection' = 1
        /\ subSection' = 0
        /\ pc' = "forSubSection"
        /\ UNCHANGED <<error, failures>>
     \/ /\ failures < MaxFailures
        /\ pc' = "catchProduct"
        /\ error' = CatEvalMsg
        /\ catOutcome' = [catOutcome EXCEPT ![product] = "evalFail"]
        /\ failures' = failures + 1
        /\ UNCHANGED <<productHierarchy, productSection, subSection>>
  /\ UNCHANGED <<product, pending, out, res, rootNav, outcome, failedBlocks, writes>>

\* Heads of the Section and Group loops.
ForSubSection ==
  /\ pc = "forSubSection"
  /\ IF subSection < NumGroups
     THEN /\ subSection' = subSection + 1
          /\ pc' = "gotoComponents"
          /\ UNCHANGED productSection
     ELSE IF productSection < NumSecs
     THEN /\ productSection' = productSection + 1
          /\ subSection' = 1
          /\ pc' = "gotoComponents"
     ELSE /\ pc' = "finallyProduct"
          /\ UNCHANGED <<productSection, subSection>>
  /\ UNCHANGED <<productHierarchy, product, error, pending, out, res, hist>>

Here == <<product, productSection, subSection>>

SetGroup(node) ==
  /\ productHierarchy' = [productHierarchy EXCEPT
        ![product].sections[productSection][subSection] = node]
  /\ writes' = [writes EXCEPT ![Here] = @ + 1]

\* await productPage.goto(componentsUrl, ...)
GotoComponents ==
  /\ pc = "gotoComponents"
  /\ \/ /\ pc' = "getComponents"
        /\ UNCHANGED <<error, outcome, failures>>
     \/ /\ failures < MaxFailures
        /\ pc' = "catchSubSection"
        /\ error' = NavMsg
        /\ outcome' = [outcome EXCEPT ![Here] = "navFail"]
        /\ failures' = failures + 1
  /\ UNCHANGED <<productHierarchy, ctl, pending, out, res, rootNav, catOutcome,
                 failedBlocks, writes>>

\* The in-page reduce over the component blocks, in document order: the
\* promise after block k.  Each step awaits the previous promise and then
\* componentSectionToNameAndData of its block (click, delay, read); it rejects
\* when either rejects.
RECURSIVE reduce(_, _)
reduce(k, failing) ==
  IF k = 0 THEN [rejected |-> FALSE, obj |-> {}]
  ELSE LET previous == reduce(k - 1, failing)
       IN IF previous.rejected \/ k \in failing
          THEN [rejected |-> TRUE, obj |-> {}]
          ELSE [rejected |-> FALSE, obj |-> previous.obj \cup {k}]

\* getComponentsAndData: componentPage.evaluate resolves to the mapping the
\* reduce resolves to; when evaluate itself or the reduce rejects, the catch
\* logs and returns {}.
getComponentsAndData(evaluateOk, failing) ==
  LET result == reduce(NumComps, failing)
  IN IF evaluateOk /\ ~result.rejected THEN result.obj ELSE {}

\* let components = await getComponentsAndData(productPage);
\* productHierarchy[product][productSection][subSection] = components;
GetComponentsAndData ==
  /\ pc = "getComponents"
  /\ \/ /\ SetGroup(MapNode(getComponentsAndData(TRUE, {})))
        /\ UNCHANGED <<outcome, failedBlocks, failures>>
     \/ /\ failures < MaxFailures
        /\ \E failing \in SUBSET PageComponents :
             \* no failing block: evaluate itself rejects
             /\ SetGroup(MapNode(getComponentsAndData(failing # {}, failing)))
             /\ failedBlocks' = [failedBlocks EXCEPT ![Here] = failing]
        /\ outcome' = [outcome EXCEPT ![Here] = "evalFail"]
        /\ failures' = failures + 1
  /\ pc' = "goBack"
  /\ UNCHANGED <<ctl, error, pending, out, res, rootNav, catOutcome>>

\* await productPage.goBack(...)
GoBack ==
  /\ pc = "goBack"
  /\ \/ /\ pc' = "forSubSection"
        /\ outcome' = [outcome EXCEPT ![Here] = IF @ = "none" THEN "ok" ELSE @]
        /\ UNCHANGED <<error, failures>>
     \/ /\ failures < MaxFailures
        /\ pc' = "catchSubSection"
        /\ error' = BackMsg
        /\ outcome' = [outcome EXCEPT ![Here] = IF @ = "none" THEN "backFail" ELSE "evalBackFail"]
        /\ failures' = failures + 1
  /\ UNCHANGED <<productHierarchy, ctl, pending, out, res, rootNav, catOutcome,
                 failedBlocks, writes>>

\* Faulty variant: the Group-level catch rethrows to the Category-level catch.
CatchSubSectionRethrows ==
  /\ pc = "catchSubSection"
  /\ SetGroup(ErrorNode(error))
  /\ pc' = "catchProduct"
  /\ UNCHANGED <<ctl, error, pending, out, res, rootNav, catOutcome, outcome,
                 failedBlocks, failures>>

\* Faulty variant: the Group-level catch only logs.
CatchSubSectionOnlyLogs ==
  /\ pc = "catchSubSection"
  /\ pc' = "forSubSection"
  /\ UNCHANGED <<productHierarchy, ctl, error, pending, out, res, hist>>

\* catch (error) { productHierarchy[product][productSection][subSection] =
\*                 { error: error.message }; }
CatchSubSection ==
  /\ pc = "catchSubSection"
  /\ SetGroup(ErrorNode(error))
  /\ pc' = "forSubSection"
  /\ UNCHANGED <<ctl, error, pending, out, res, rootNav, catOutcome, outcome,
                 failedBlocks, failures>>

\* Faulty variant: the Category-level catch rethrows after installing the marker.
CatchProductRethrows ==
  /\ pc = "catchProduct"
  /\ productHierarchy' = [productHierarchy EXCEPT ![product] = CatError(error)]
  /\ pc' = "outerCatch"
  /\ UNCHANGED <<ctl, error, pending, out, res, hist>>

\* catch (error) { productHierarchy[product] = { error: error.message }; }
CatchProduct ==
  /\ pc = "catchProduct"
  /\ productHierarchy' = [productHierarchy EXCEPT ![product] = CatError(error)]
  /\ pc' = "finallyProduct"
  /\ UNCHANGED <<ctl, error, pending, out, res, hist>>

\* finally { await productPage.close(); }
FinallyProduct ==
  /\ pc = "finallyProduct"
  /\ \E ok \in BOOLEAN :
       IF ok THEN /\ productPages' = productPages \ {product}
                  /\ pc' = "forProduct"
                  /\ UNCHANGED error
       ELSE /\ ThrowFatal(FatalMsg)
            /\ UNCHANGED productPages
  /\ UNCHANGED <<productHierarchy, ctl, pending, out, browser, browserCloses,
                 rootPage, hist>>

\* return productHierarchy;
Return ==
  /\ pc = "return"
  /\ pending' = "return"
  /\ pc' = "finallyBrowser"
  /\ UNCHANGED <<productHierarchy, ctl, error, out, res, hist>>

\* catch (error) { console.error(...); throw error; }
OuterCatch ==
  /\ pc = "outerCatch"
  /\ pending' = "throw"
  /\ pc' = "finallyBrowser"
  /\ UNCHANGED <<productHierarchy, ctl, error, out, res, hist>>

\* finally { await browser.close(); }: then the pending return or throw
\* completes; a failing close replaces either.
FinallyBrowser ==
  /\ pc = "finallyBrowser"
  /\ \E ok \in BOOLEAN :
       IF ok
       THEN /\ browser' = "closed"
            /\ browserCloses' = browserCloses + 1
            /\ IF pending = "return"
               THEN /\ componentData' = Data(productHierarchy)
                    /\ pc' = "processAndSaveResults"
               ELSE /\ pc' = "mainCatch"
                    /\ UNCHANGED componentData
            /\ UNCHANGED error
       ELSE /\ pc' = "mainCatch"
            /\ error' = FatalMsg
            /\ UNCHANGED <<browser, browserCloses, componentData>>
  /\ UNCHANGED <<productHierarchy, ctl, pending, exitCode, outputFile, rootPage,
                 productPages, hist>>

\* processAndSaveResults: empty data exits with 1, otherwise the tree is
\* written to options.outputPath.
ProcessAndSaveResults ==
  /\ pc = "processAndSaveResults"
  /\ IF Len(componentData.value) = 0
     THEN Exit(1) /\ UNCHANGED <<outputFile, error>>
     ELSE \E ok \in BOOLEAN :
            IF ok THEN /\ outputFile' = componentData.value
                       /\ pc' = "done"
                       /\ UNCHANGED <<exitCode, error>>
            ELSE /\ pc' = "mainCatch"
                 /\ error' = IOMsg
                 /\ UNCHANGED <<exitCode, outputFile>>
  /\ UNCHANGED <<productHierarchy, ctl, pending, componentData, res, hist>>

\* main().catch(console.error): the rejection is logged and handled.
MainCatch ==
  /\ pc = "mainCatch"
  /\ pc' = "done"
  /\ UNCHANGED <<productHierarchy, ctl, error, pending, out, res, hist>>

\* The event loop drains: the process ends with process.exitCode, which nothing
\* in the program sets, so the status is 0.
ProcessEnd ==
  /\ pc = "done"
  /\ Exit(0)
  /\ UNCHANGED <<productHierarchy, ctl, error, pending, componentData, outputFile,
                 res, hist>>

\* ========================================================= findUrlBasePath
\* A URL is a sequence of UTF-16 code units; these are the code units used.
UrlChars == {97, 98}
Urls == UNION {[1..n -> UrlChars] : n \in 0..MaxUrlLen}
UrlLists == UNION {[1..n -> Urls] : n \in 0..MaxUrls}

InitUrl ==
  /\ upc = "call"
  /\ urls \in UrlLists
  /\ basePath = <<>>

IdleUrl ==
  /\ upc = "idle"
  /\ urls = <<>>
  /\ basePath = <<>>

\* Array.prototype.sort() without a comparator: ascending order of the
\* strings' code units.
RECURSIVE CodeUnitLess(_, _)
CodeUnitLess(a, b) ==
  IF Len(a) = 0 THEN Len(b) > 0
  ELSE IF Len(b) = 0 THEN FALSE
  ELSE IF a[1] # b[1] THEN a[1] < b[1]
  ELSE CodeUnitLess(Tail(a), Tail(b))

\* let i = 0; while (i < first.length && i < last.length &&
\*                   first[i] === last[i]) i++;
RECURSIVE CommonLength(_, _, _)
CommonLength(first, last, i) ==
  IF i < Len(first) /\ i < Len(last) /\ first[i + 1] = last[i + 1]
  THEN CommonLength(first, last, i + 1)
  ELSE i

\* Faulty variant: the first and last element are taken without sorting.
findUrlBasePathUnsorted(u) ==
  IF Len(u) = 0 THEN <<>>
  ELSE IF Len(u) = 1 THEN u[1]
  ELSE SubSeq(u[1], 1, CommonLength(u[1], u[Len(u)], 0))

findUrlBasePath(u) ==
  IF Len(u) = 0 THEN <<>>
  ELSE IF Len(u) = 1 THEN u[1]
  ELSE LET sorted == SortSeq(u, CodeUnitLess)
           first == sorted[1]
           last == sorted[Len(sorted)]
       IN SubSeq(first, 1, CommonLength(first, last, 0))

\* One call of the helper on the links of one root-page section.
FindUrlBasePath ==
  /\ upc = "call"
  /\ basePath' = findUrlBasePath(urls)
  /\ upc' = "returned"
  /\ UNCHANGED urls

\* =================================================== tailwindplus-diff.sh
\* A snapshot file is the JSON tree flattened to its string leaves: a function
\* from key paths to strings.  <<category, section, group, component>> is a
\* component's code; <<category, "error">> is the message of a Category-level
\* error marker and <<category, section, group, "error">> the message of a
\* Group-level one (to the script, a Group whose only component is "error").
DiffContents == {"<div>1</div>", "<div>2</div>", "null"}
DiffMessages == {"Timeout 30000ms exceeded."}
DiffComponentPaths ==
  {<<"A", "S", "G", "X">>, <<"A", "S", "G", "Y">>, <<"B", "S", "G", "X">>}
DiffMarkerPaths ==
  {<<"A", "error">>, <<"B", "error">>, <<"A", "S", "G", "error">>}

\* The node an error marker stands for.
MarkedNode(m) == SubSeq(m, 1, Len(m) - 1)

\* Keys in the order of jq's keys (sorted by codepoint).
KeyOrder == <<"A", "B", "G", "S", "X", "Y", "error">>

HasPrefix(path, prefix) ==
  Len(path) >= Len(prefix) /\ SubSeq(path, 1, Len(prefix)) = prefix

\* A Category or Group is either a mapping or an error marker, never both.
DiffFiles ==
  UNION { [P -> DiffContents \cup DiffMessages] :
          P \in {Q \in SUBSET (DiffComponentPaths \cup DiffMarkerPaths) :
                   \A m \in Q \cap DiffMarkerPaths :
                     \A q \in Q \ {m} : ~HasPrefix(q, MarkedNode(m))} }

WellFormedFile(f) ==
  /\ \A q \in DOMAIN f \cap DiffComponentPaths : f[q] \in DiffContents
  /\ \A q \in DOMAIN f \cap DiffMarkerPaths : f[q] \in DiffMessages

NoFile == [q \in {} |-> ""]
NoRun == [reports |-> <<>>, status |-> -1]

diffLoop == <<catKeys, subcatKeys, groupKeys, compKeys, category, subcategory, group>>
diffOut == <<compared, reports, diffs, status>>

InitDiff ==
  /\ dpc = "start"
  /\ run = 1
  /\ OLD_FILE \in {f \in DiffFiles : WellFormedFile(f)}
  /\ NEW_FILE \in {f \in DiffFiles : WellFormedFile(f)}
  /\ catKeys = <<>> /\ subcatKeys = <<>> /\ groupKeys = <<>> /\ compKeys = <<>>
  /\ category = "" /\ subcategory = "" /\ group = ""
  /\ compared = <<>> /\ reports = <<>> /\ diffs = {} /\ status = -1
  /\ firstRun = NoRun

IdleDiff ==
  /\ dpc = "idle"
  /\ run = 0
  /\ OLD_FILE = NoFile
  /\ NEW_FILE = NoFile
  /\ catKeys = <<>> /\ subcatKeys = <<>> /\ groupKeys = <<>> /\ compKeys = <<>>
  /\ category = "" /\ subcategory = "" /\ group = ""
  /\ compared = <<>> /\ reports = <<>> /\ diffs = {} /\ status = -1
  /\ firstRun = NoRun

\* jq -r '<prefix> | keys[]' FILE: the sorted keys of the object at prefix; jq
\* fails (exit 5) on a string ("string has no keys") and on null.
JqKeys(file, prefix) ==
  LET below == {q \in DOMAIN file : Len(q) > Len(prefix) /\ HasPrefix(q, prefix)}
      keys == {q[Len(prefix) + 1] : q \in below}
  IN IF prefix \in DOMAIN file \/ (below = {} /\ prefix # <<>>)
     THEN [ok |-> FALSE, keys |-> <<>>]
     ELSE [ok |-> TRUE, keys |-> SelectSeq(KeyOrder, LAMBDA k : k \in keys)]

\* jq -r '.[$cat][$subcat][$grp][$comp]' FILE > temp.html: the lines written.
\* Indexing a string fails and leaves the file empty; a missing key, at any
\* level, gives null, which -r prints as the text null; a string is printed
\* raw; an object is printed as JSON text.
JqGet(file, path) ==
  IF \E k \in 1..(Len(path) - 1) : SubSeq(path, 1, k) \in DOMAIN file
  THEN [ok |-> FALSE, lines |-> <<>>]
  ELSE IF path \in DOMAIN file
  THEN [ok |-> TRUE, lines |-> <<file[path]>>]
  ELSE IF \E q \in DOMAIN file : HasPrefix(q, path)
  THEN [ok |-> TRUE, lines |-> <<"{", "}">>]
  ELSE [ok |-> TRUE, lines |-> <<"null">>]

\* [ -s temp.html ]
NonEmpty(lines) == Len(lines) > 0

\* Faulty variant: cmp reports a difference for every pair of files.
cmpAlwaysDiffers(temp1, temp2) == FALSE

\* cmp -s temp1.html temp2.html
cmp(temp1, temp2) == temp1 = temp2

\* ---- the name of a diff file.  Strings are sequences of characters.
\* The grave accent, which a TLA+ string cannot hold.
GraveAccent == "U+0060"

UnsafeChars ==
  {" ", "/", ":", "*", "?", "\"", "<", ">", "|", "[", "]", "$", GraveAccent,
   "\\", "\n", "\t", "#"}

\* The characters of a key of KeyOrder.
Chars(key) ==
  CASE key = "error" -> <<"e", "r", "r", "o", "r">>
    [] OTHER -> <<key>>

\* printf '%s' of the four loop variables joined by '_'
printf(cat, subcat, grp, comp) ==
  cat \o <<"_">> \o subcat \o <<"_">> \o grp \o <<"_">> \o comp

\* tr SET1 '_': every character of SET1 becomes '_'
tr(s) == [i \in 1..Len(s) |-> IF s[i] \in UnsafeChars THEN "_" ELSE s[i]]

\* Each run of the character c in s becomes a single c (computed by halves).
RECURSIVE squeeze(_, _)
squeeze(s, c) ==
  IF Len(s) <= 1 THEN s
  ELSE LET half == Len(s) \div 2
           left == squeeze(SubSeq(s, 1, half), c)
           right == squeeze(SubSeq(s, half + 1, Len(s)), c)
       IN IF left[Len(left)] = c /\ right[1] = c
          THEN left \o Tail(right)
          ELSE left \o right

\* Faulty variant: repeated separators are kept.
tr_keep(s) == s

\* tr -s '_'
tr_s(s) == squeeze(s, "_")

\* sed 's/^[._]*//'
sed(s) ==
  LET leading == {i \in 1..Len(s) : \A j \in 1..i : s[j] \in {".", "_"}}
  IN SubSeq(s, Cardinality(leading) + 1, Len(s))

\* cut -c1-200
cut(s) == SubSeq(s, 1, IF Len(s) < CutWidth THEN Len(s) ELSE CutWidth)

\* safe_name=$(printf ... | tr ... | tr -s '_' | sed ... | cut -c1-200)
safe_name(cat, subcat, grp, comp) == cut(sed(tr_s(tr(printf(cat, subcat, grp, comp)))))

\* [[ -z "$safe_name" || "$safe_name" =~ ^[._-]+$ ]]
NeedsFallback(s) == s = <<>> \/ \A i \in 1..Len(s) : s[i] \in {".", "_", "-"}

\* The decimal digits that $(date +%s) and $$ expand to.
Digit == <<"0", "1", "2", "3", "4", "5", "6", "7", "8", "9">>
RECURSIVE Decimal(_)
Decimal(n) ==
  IF n < 10 THEN <<Digit[n + 1]>>
  ELSE Decimal(n \div 10) \o <<Digit[(n % 10) + 1]>>

\* safe_name=component_$(date +%s)_$$
Fallback(seconds, process) ==
  <<"c", "o", "m", "p", "o", "n", "e", "n", "t", "_">> \o Decimal(seconds)
    \o <<"_">> \o Decimal(process)

\* set -o errexit / pipefail: a failing jq at the head of a loop's pipeline
\* ends every enclosing subshell and the script with jq's status.
Abort ==
  /\ dpc' = "aborted"
  /\ status' = 5

\* jq -r 'keys[]' "$NEW_FILE" | while read -r category
StartDiff ==
  /\ dpc = "start"
  /\ LET r == JqKeys(NEW_FILE, <<>>)
     IN IF r.ok THEN /\ catKeys' = r.keys
                     /\ dpc' = "category"
                     /\ UNCHANGED status
        ELSE Abort /\ UNCHANGED catKeys
  /\ UNCHANGED <<run, OLD_FILE, NEW_FILE, subcatKeys, groupKeys, compKeys, category,
                 subcategory, group, compared, reports, diffs, firstRun>>

\* read -r category; then the pipeline of the subcategory loop starts.  After
\* the last category: echo "Diff files saved in 'diffs' directory".
ReadCategory ==
  /\ dpc = "category"
  /\ IF catKeys = <<>>
     THEN /\ dpc' = "done"
          /\ status' = 0
          /\ UNCHANGED <<catKeys, subcatKeys, category>>
     ELSE LET r == JqKeys(NEW_FILE, <<Head(catKeys)>>)
          IN /\ category' = Head(catKeys)
             /\ catKeys' = Tail(catKeys)
             /\ IF r.ok THEN /\ subcatKeys' = r.keys
                             /\ dpc' = "subcategory"
                             /\ UNCHANGED status
                ELSE Abort /\ UNCHANGED subcatKeys
  /\ UNCHANGED <<run, OLD_FILE, NEW_FILE, groupKeys, compKeys, subcategory, group,
                 compared, reports, diffs, firstRun>>

ReadSubcategory ==
  /\ dpc = "subcategory"
  /\ IF subcatKeys = <<>>
     THEN /\ dpc' = "category"
          /\ UNCHANGED <<subcatKeys, groupKeys, subcategory, status>>
     ELSE LET r == JqKeys(NEW_FILE, <<category, Head(subcatKeys)>>)
          IN /\ subcategory' = Head(subcatKeys)
             /\ subcatKeys' = Tail(subcatKeys)
             /\ IF r.ok THEN /\ groupKeys' = r.keys
                             /\ dpc' = "group"
                             /\ UNCHANGED status
                ELSE Abort /\ UNCHANGED groupKeys
  /\ UNCHANGED <<run, OLD_FILE, NEW_FILE, catKeys, compKeys, category, group,
                 compared, reports, diffs, firstRun>>

ReadGroup ==
  /\ dpc = "group"
  /\ IF groupKeys = <<>>
     THEN /\ dpc' = "subcategory"
          /\ UNCHANGED <<groupKeys, compKeys, group, status>>
     ELSE LET r == JqKeys(NEW_FILE, <<category, subcategory, Head(groupKeys)>>)
          IN /\ group' = Head(groupKeys)
             /\ groupKeys' = Tail(groupKeys)
             /\ IF r.ok THEN /\ compKeys' = r.keys
                             /\ dpc' = "component"
                             /\ UNCHANGED status
                ELSE Abort /\ UNCHANGED compKeys
  /\ UNCHANGED <<run, OLD_FILE, NEW_FILE, catKeys, subcatKeys, category, subcategory,
                 compared, reports, diffs, firstRun>>

Report(path, kind) == Append(reports, [path |-> path, kind |-> kind])

\* The body of the component loop: extract both sides, compare, report.
CompareComponent(component) ==
  LET path == <<category, subcategory, group, component>>
      temp1 == JqGet(OLD_FILE, path)
      temp2 == JqGet(NEW_FILE, path)
      sane == safe_name(Chars(category), Chars(subcategory), Chars(group),
                        Chars(component))
      name == IF NeedsFallback(sane) THEN Fallback(now, pid) ELSE sane
  IN /\ compared' = Append(compared, path)
     /\ IF ~temp1.ok \/ ~temp2.ok
        THEN \* Warning: Failed to extract component; continue
             UNCHANGED <<reports, diffs>>
        ELSE IF NonEmpty(temp1.lines) /\ NonEmpty(temp2.lines)
        THEN IF ~cmp(temp1.lines, temp2.lines)
             THEN \* DIFFERENCES FOUND!  diffs/${safe_name}.diff is (re)written
                  /\ reports' = Report(path, "Modified")
                  /\ diffs' = {d \in diffs : d.name # name} \cup
                       {[name |-> name, old |-> temp1.lines, new |-> temp2.lines]}
             ELSE UNCHANGED <<reports, diffs>>
        ELSE /\ reports' =
                  IF ~NonEmpty(temp1.lines) /\ NonEmpty(temp2.lines)
                  THEN Report(path, "Added")
                  ELSE IF NonEmpty(temp1.lines) /\ ~NonEmpty(temp2.lines)
                  THEN Report(path, "Removed")
                  ELSE Report(path, "Failed")
             /\ UNCHANGED diffs

ReadComponent ==
  /\ dpc = "component"
  /\ IF compKeys = <<>>
     THEN /\ dpc' = "group"
          /\ UNCHANGED <<compKeys, compared, reports, diffs>>
     ELSE /\ compKeys' = Tail(compKeys)
          /\ CompareComponent(Head(compKeys))
          /\ UNCHANGED dpc
  /\ UNCHANGED <<run, OLD_FILE, NEW_FILE, catKeys, subcatKeys, groupKeys, category,
                 subcategory, group, status, firstRun>>

\* A second invocation with --old and --new exchanged.
SwapRun ==
  /\ dpc \in {"done", "aborted"}
  /\ run = 1
  /\ run' = 2
  /\ firstRun' = [reports |-> reports, status |-> status]
  /\ OLD_FILE' = NEW_FILE
  /\ NEW_FILE' = OLD_FILE
  /\ dpc' = "start"
  /\ catKeys' = <<>> /\ subcatKeys' = <<>> /\ groupKeys' = <<>> /\ compKeys' = <<>>
  /\ category' = "" /\ subcategory' = "" /\ group' = ""
  /\ compared' = <<>> /\ reports' = <<>> /\ diffs' = {} /\ status' = -1

\* ------------------------------------------- naming of the diff files
\* The DIFFERENCES FOUND branch, for the modified leaves of one run.  The loop
\* variables come from read -r and jq's keys: within one run no path comes
\* twice.  Keys hold a letter, a dot, a dash, a replaced character, or more
\* letters than cut keeps.
LongKey == [i \in 1..(CutWidth + 1) |-> "a"]
NameCats == {<<"a">>, <<".">>}
NameSubcats == {<<"a">>, <<"/">>}
NameGroups == {<<"a">>, <<":">>}
NameComps == {<<"/">>, <<"-">>, LongKey}
NamePaths == NameCats \X NameSubcats \X NameGroups \X NameComps
Pids == {1, 2}
NoArgs == <<>>

InitName ==
  /\ npc = "leaf"
  /\ nameArgs = NoArgs
  /\ fileName = <<>>
  /\ now = 0
  /\ pid \in Pids
  /\ written = {}
  /\ named = {}

IdleName ==
  /\ npc = "idle"
  /\ nameArgs = NoArgs
  /\ fileName = <<>>
  /\ now = 0
  /\ pid = 0
  /\ written = {}
  /\ named = {}

\* if ! cmp -s temp1.html temp2.html; then echo DIFFERENCES FOUND
DifferencesFound ==
  /\ npc = "leaf"
  /\ Cardinality(named) < MaxLeaves
  /\ \E path \in NamePaths \ {r.path : r \in named} : nameArgs' = path
  /\ npc' = "sanitize"
  /\ UNCHANGED <<fileName, now, pid, written, named>>

\* safe_name=$(printf ... | tr | tr -s | sed | cut)
Sanitize ==
  /\ npc = "sanitize"
  /\ fileName' = safe_name(nameArgs[1], nameArgs[2], nameArgs[3], nameArgs[4])
  /\ npc' = "validate"
  /\ UNCHANGED <<nameArgs, now, pid, written, named>>

\* The validation and its fallback.  date +%s reads the clock, which never
\* runs backwards; $$ is the same in every iteration.
Validate ==
  /\ npc = "validate"
  /\ IF NeedsFallback(fileName)
     THEN \E seconds \in now..MaxClock :
            /\ now' = seconds
            /\ fileName' = Fallback(seconds, pid)
     ELSE UNCHANGED <<fileName, now>>
  /\ npc' = "write"
  /\ UNCHANGED <<nameArgs, pid, written, named>>

\* git diff ... > diffs/${safe_name}.diff (or diff -u): the file is created
\* or truncated and then holds the diff of this leaf.
WriteDiff ==
  /\ npc = "write"
  /\ written' = {w \in written : w.name # fileName} \cup
                  {[name |-> fileName, path |-> nameArgs]}
  /\ named' = named \cup
       {[path |-> nameArgs, name |-> fileName,
         fallback |-> NeedsFallback(safe_name(nameArgs[1], nameArgs[2],
                                              nameArgs[3], nameArgs[4]))]}
  /\ npc' = "leaf"
  /\ UNCHANGED <<nameArgs, fileName, now, pid>>

\* ======================================================== specifications
vars == <<scrapeVars, urlVars, diffVars, nameVars>>

Init == InitScrape /\ IdleUrl /\ IdleDiff /\ IdleName

Next ==
  \/ ParseArgs /\ UNCHANGED <<urlVars, diffVars, nameVars>>
  \/ ValidateInputs /\ UNCHANGED <<urlVars, diffVars, nameVars>>
  \/ HandleAuthentication /\ UNCHANGED <<urlVars, diffVars, nameVars>>
  \/ Launch /\ UNCHANGED <<urlVars, diffVars, nameVars>>
  \/ AddCookies /\ UNCHANGED <<urlVars, diffVars, nameVars>>
  \/ GotoRoot /\ UNCHANGED <<urlVars, diffVars, nameVars>>
  \/ GetProductNamesAndPageUrls /\ UNCHANGED <<urlVars, diffVars, nameVars>>
  \/ CloseRootPage /\ UNCHANGED <<urlVars, diffVars, nameVars>>
  \/ ForProduct /\ UNCHANGED <<urlVars, diffVars, nameVars>>
  \/ GotoProduct /\ UNCHANGED <<urlVars, diffVars, nameVars>>
  \/ GetProductSectionsAndPageUrls /\ UNCHANGED <<urlVars, diffVars, nameVars>>
  \/ ForSubSection /\ UNCHANGED <<urlVars, diffVars, nameVars>>
  \/ GotoComponents /\ UNCHANGED <<urlVars, diffVars, nameVars>>
  \/ GetComponentsAndData /\ UNCHANGED <<urlVars, diffVars, nameVars>>
  \/ GoBack /\ UNCHANGED <<urlVars, diffVars, nameVars>>
  \/ CatchSubSection /\ UNCHANGED <<urlVars, diffVars, nameVars>>
  \/ CatchProduct /\ UNCHANGED <<urlVars, diffVars, nameVars>>
  \/ FinallyProduct /\ UNCHANGED <<urlVars, diffVars, nameVars>>
  \/ Return /\ UNCHANGED <<urlVars, diffVars, nameVars>>
  \/ OuterCatch /\ UNCHANGED <<urlVars, diffVars, nameVars>>
  \/ FinallyBrowser /\ UNCHANGED <<urlVars, diffVars, nameVars>>
  \/ ProcessAndSaveResults /\ UNCHANGED <<urlVars, diffVars, nameVars>>
  \/ MainCatch /\ UNCHANGED <<urlVars, diffVars, nameVars>>
  \/ ProcessEnd /\ UNCHANGED <<urlVars, diffVars, nameVars>>

Spec == Init /\ [][Next]_vars

InitU == InitScrape /\ InitUrl /\ IdleDiff /\ IdleName
NextU == FindUrlBasePath /\ UNCHANGED <<scrapeVars, diffVars, nameVars>>
SpecUrl == InitU /\ [][NextU]_vars

InitD == InitScrape /\ IdleUrl /\ InitDiff /\ IdleName
NextD ==
  \/ StartDiff /\ UNCHANGED <<scrapeVars, urlVars, nameVars>>
  \/ ReadCategory /\ UNCHANGED <<scrapeVars, urlVars, nameVars>>
  \/ ReadSubcategory /\ UNCHANGED <<scrapeVars, urlVars, nameVars>>
  \/ ReadGroup /\ UNCHANGED <<scrapeVars, urlVars, nameVars>>
  \/ ReadComponent /\ UNCHANGED <<scrapeVars, urlVars, nameVars>>
  \/ SwapRun /\ UNCHANGED <<scrapeVars, urlVars, nameVars>>
SpecDiff == InitD /\ [][NextD]_vars

InitN == InitScrape /\ IdleUrl /\ IdleDiff /\ InitName
NextN ==
  \/ DifferencesFound /\ UNCHANGED <<scrapeVars, urlVars, diffVars>>
  \/ Sanitize /\ UNCHANGED <<scrapeVars, urlVars, diffVars>>
  \/ Validate /\ UNCHANGED <<scrapeVars, urlVars, diffVars>>
  \/ WriteDiff /\ UNCHANGED <<scrapeVars, urlVars, diffVars>>
SpecName == InitN /\ [][NextN]_vars

\* ================================================================ claims
Returned == componentData.returned
Tree == componentData.value
FullMap == MapNode(PageComponents)
GroupNode(p) == productHierarchy[p[1]].sections[p[2]][p[3]]
GroupPathsOf(c) == {c} \X Secs \X Groups
Cats == DOMAIN productHierarchy

\* What the walk leaves at a Group node, given only that Group's own outcome.
OwnResult(o) ==
  CASE o = "ok" -> FullMap
    [] o = "evalFail" -> MapNode({})
    [] o = "navFail" -> ErrorNode(NavMsg)
    [] OTHER -> ErrorNode(BackMsg)

\* C1 (Group isolation): when scrapeTailwindPlus returns, every Category has
\* been processed, and in every Category whose page loaded every Group has been
\* visited and holds the value its own navigate/extract/go-back outcome
\* determines, whatever happened at any other Group: a Group whose own steps
\* succeeded holds its full component mapping.
C1_GroupIsolation ==
  Returned =>
    \A c \in Cats :
      /\ catOutcome[c] # "none"
      /\ catOutcome[c] = "ok" =>
           /\ productHierarchy[c].kind = "map"
           /\ \A p \in GroupPathsOf(c) :
                /\ outcome[p] # "none"
                /\ GroupNode(p) = OwnResult(outcome[p])

\* A returned two-Category tree in which the first Group failed and each of its
\* sibling Groups, Sections and Categories holds full content.
C1_Witness ==
  /\ Returned
  /\ Cats = AllCats
  /\ outcome[<<1, 1, 1>>] \in {"navFail", "evalFail", "backFail"}
  /\ \A p \in AllGroupPaths \ {<<1, 1, 1>>} : outcome[p] = "ok" /\ GroupNode(p) = FullMap

\* C2 (Category isolation): a Category whose navigation or Section extraction
\* failed is exactly {error: message}, none of its Groups was visited, the
\* failure never reaches the outer catch, and when the tree is returned every
\* Category has been processed and every Category that loaded is a mapping of
\* all its Sections.
C2_CategoryIsolation ==
  /\ pc = "outerCatch" => error \notin {CatNavMsg, CatEvalMsg}
  /\ Returned =>
       \A c \in Cats :
         /\ catOutcome[c] = "navFail" => productHierarchy[c] = CatError(CatNavMsg)
         /\ catOutcome[c] = "evalFail" => productHierarchy[c] = CatError(CatEvalMsg)
         /\ catOutcome[c] \in {"navFail", "evalFail"} =>
              \A p \in GroupPathsOf(c) : outcome[p] = "none" /\ writes[p] = 0
         /\ catOutcome[c] = "ok" =>
              /\ productHierarchy[c].kind = "map"
              /\ DOMAIN productHierarchy[c].sections = Secs
         /\ catOutcome[c] # "none"

\* The first Category failed, the second one was walked completely.
C2_Witness ==
  /\ Returned
  /\ Cats = AllCats
  /\ catOutcome[1] \in {"navFail", "evalFail"}
  /\ productHierarchy[1].kind = "error"
  /\ \A p \in GroupPathsOf(2) : GroupNode(p) = FullMap

\* C3 (as claimed): a Group whose navigation or extraction failed ends as an
\* error marker, never as an empty or partial mapping.
C3_FailedGroupIsErrorMarker ==
  Returned =>
    \A c \in Cats : catOutcome[c] = "ok" =>
      \A p \in GroupPathsOf(c) :
        outcome[p] \in {"navFail", "evalFail", "evalBackFail"} =>
          GroupNode(p).kind = "error"

\* C4 (as claimed): every Group placeholder is overwritten exactly once; no
\* Group node is assigned a second time.
C4_WriteOnce ==
  /\ \A p \in AllGroupPaths : writes[p] <= 1
  /\ Returned =>
       \A c \in Cats : catOutcome[c] = "ok" =>
         \A p \in GroupPathsOf(c) : writes[p] = 1

\* C5 (uniform depth): in a returned tree no Category and no Group is still a
\* URL placeholder; each is a mapping or an error marker.
C5_NoPlaceholderLeft ==
  Returned =>
    \A c \in DOMAIN Tree :
      /\ Tree[c].kind \in {"map", "error"}
      /\ Tree[c].kind = "map" =>
           \A s \in DOMAIN Tree[c].sections :
             \A g \in DOMAIN Tree[c].sections[s] :
               Tree[c].sections[s][g].kind \in {"map", "error"}

\* A returned tree holding an error-marked Category, and a Category with an
\* expanded Group.
C5_Witness ==
  /\ Returned
  /\ \E c \in DOMAIN Tree : Tree[c].kind = "error"
  /\ \E c \in DOMAIN Tree :
       /\ Tree[c].kind = "map"
       /\ \E s \in Secs, g \in Groups : Tree[c].sections[s][g].kind = "map"

\* C6 (as claimed): when the root navigation failed, the process ends with a
\* non-zero status, no Category was processed and no output was written.
C6_RootFailureIsFatal ==
  (rootNav = "fail" /\ pc = "exit") =>
    /\ exitCode # 0
    /\ outputFile = NoTree
    /\ product = 0
    /\ \A c \in AllCats : catOutcome[c] = "none"

IsPrefix(p, u) == Len(p) <= Len(u) /\ SubSeq(u, 1, Len(p)) = p
UrlSet == {urls[k] : k \in 1..Len(urls)}

\* C7 (findUrlBasePath): for a non-empty list the result is a prefix of every
\* URL and no longer string is; a single URL is returned unchanged, and URLs
\* that share no first code unit give the empty string.
C7_LongestCommonPrefix ==
  (upc = "returned" /\ Len(urls) > 0) =>
    /\ \A u \in UrlSet : IsPrefix(basePath, u)
    /\ \/ \E u \in UrlSet : Len(u) = Len(basePath)
       \/ \E u, v \in UrlSet : u[Len(basePath) + 1] # v[Len(basePath) + 1]
    /\ Len(urls) = 1 => basePath = urls[1]
    /\ (\E u, v \in UrlSet : Len(u) = 0 \/ Len(v) = 0 \/ u[1] # v[1]) => basePath = <<>>

\* Three distinct URLs, given out of order with the greatest one in the
\* middle, whose common prefix is one code unit.
C7_Witness ==
  /\ upc = "returned"
  /\ Len(urls) = 3
  /\ CodeUnitLess(urls[3], urls[2])
  /\ CodeUnitLess(urls[1], urls[3])
  /\ Len(urls[2]) = MaxUrlLen
  /\ Len(basePath) = 1

Indices(rs, path) == {i \in 1..Len(rs) : rs[i].path = path}
KindsOf(rs, path) == {rs[i].kind : i \in Indices(rs, path)}
PathsOf(rs, kind) == {rs[i].path : i \in {j \in 1..Len(rs) : rs[j].kind = kind}}
AllDiffPaths == DiffComponentPaths \cup DiffMarkerPaths

\* C8 (as claimed): when a run of the differ completes, every leaf present only
\* in the new file has exactly one Added report, every leaf present only in the
\* old file exactly one Removed report, every leaf present in both with
\* different content exactly one Modified report and a diff artifact, and no
\* other leaf has a report.
C8_Completeness ==
  (dpc = "done" /\ status = 0) =>
    \A q \in AllDiffPaths :
      LET inOld == q \in DOMAIN OLD_FILE
          inNew == q \in DOMAIN NEW_FILE
          n == Cardinality(Indices(reports, q))
      IN /\ (inNew /\ ~inOld) => (n = 1 /\ KindsOf(reports, q) = {"Added"})
         /\ (inOld /\ ~inNew) => (n = 1 /\ KindsOf(reports, q) = {"Removed"})
         /\ (inOld /\ inNew /\ OLD_FILE[q] # NEW_FILE[q]) =>
              /\ n = 1
              /\ KindsOf(reports, q) = {"Modified"}
              /\ \E d \in diffs :
                   d.name = safe_name(Chars(q[1]), Chars(q[2]), Chars(q[3]), Chars(q[4]))
         /\ (inOld /\ inNew /\ OLD_FILE[q] = NEW_FILE[q]) => n = 0
         /\ (~inOld /\ ~inNew) => n = 0

\* C9 (idempotence): while a file is compared with itself nothing is reported
\* and no diff artifact is written; in any run, no report is printed for a path
\* whose content is the same string in both files.
C9_Idempotence ==
  /\ (OLD_FILE = NEW_FILE) => (reports = <<>> /\ diffs = {})
  /\ \A i \in 1..Len(reports) :
       (reports[i].path \in DOMAIN OLD_FILE /\ reports[i].path \in DOMAIN NEW_FILE)
         => OLD_FILE[reports[i].path] # NEW_FILE[reports[i].path]

\* A completed run that compared all three components of a file with itself.
C9_Witness ==
  /\ dpc = "done"
  /\ OLD_FILE = NEW_FILE
  /\ DOMAIN NEW_FILE = DiffComponentPaths
  /\ Len(compared) = Cardinality(DiffComponentPaths)

\* C10 (as claimed): after diff(A,B) and diff(B,A) have both completed, the two
\* report the same Modified paths, and every path one reports as Added is
\* reported as Removed by the other.
C10_Symmetry ==
  (run = 2 /\ dpc = "done" /\ firstRun.status = 0) =>
    /\ PathsOf(firstRun.reports, "Modified") = PathsOf(reports, "Modified")
    /\ PathsOf(firstRun.reports, "Added") \subseteq PathsOf(reports, "Removed")
    /\ PathsOf(reports, "Added") \subseteq PathsOf(firstRun.reports, "Removed")

\* The component leaves of a file beneath a node.
ContentBelow(file, node) ==
  {q \in DOMAIN file \cap DiffComponentPaths : HasPrefix(q, node)}
ReportsBelow(rs, node) == {i \in 1..Len(rs) : HasPrefix(rs[i].path, node)}
Walked(path) == \E i \in 1..Len(compared) : compared[i] = path

\* C11 (as claimed): when a run of the differ has ended and a Category or Group
\* is an error marker in one file and content in the other, the run has
\* completed, it has visited every leaf of the new file, and it has reported
\* that node as Modified; a node that is the same error marker in both files
\* has no report.
C11_ErrorMarkers ==
  (dpc \in {"done", "aborted"}) =>
    \A m \in DiffMarkerPaths :
      LET node == MarkedNode(m)
          markedOld == m \in DOMAIN OLD_FILE
          markedNew == m \in DOMAIN NEW_FILE
      IN /\ (  (markedOld /\ ContentBelow(NEW_FILE, node) # {})
            \/ (markedNew /\ ContentBelow(OLD_FILE, node) # {})) =>
              /\ dpc = "done"
              /\ status = 0
              /\ \A q \in DOMAIN NEW_FILE : Len(q) = 4 => Walked(q)
              /\ \E i \in ReportsBelow(reports, node) : reports[i].kind = "Modified"
         /\ (markedOld /\ markedNew /\ OLD_FILE[m] = NEW_FILE[m]) =>
              ReportsBelow(reports, node) = {}

Sanitised == {r \in named : ~r.fallback}
Fallbacks == {r \in named : r.fallback}

\* C12 (as claimed): any two distinct paths handled in a run whose identifiers
\* are not the fallback have different identifiers, and the diff file of each
\* such leaf still holds that leaf's diff.
C12_Injective ==
  /\ \A r1, r2 \in Sanitised : r1.path # r2.path => r1.name # r2.name
  /\ (npc = "leaf") =>
       \A r \in Sanitised : [name |-> r.name, path |-> r.path] \in written

\* C13 (as claimed): every fallback identifier is non-empty and differs from
\* the fallback identifier of every other leaf of the run.
C13_FallbackUnique ==
  \A r1 \in Fallbacks :
    /\ r1.name # <<>>
    /\ \A r2 \in Fallbacks : r1.path # r2.path => r1.name # r2.name

\* The identifier of a diff file is well formed.
WellFormedName(s) ==
  /\ s # <<>>
  /\ Len(s) <= CutWidth
  /\ \A i \in 1..Len(s) : s[i] \notin UnsafeChars
  /\ \A i \in 1..(Len(s) - 1) : ~(s[i] = "_" /\ s[i + 1] = "_")
  /\ s[1] \notin {"_", "."}

\* C16 (well-formedness): the name under which a diff file is about to be
\* written, and the name of every diff file written, is non-empty, at most 200
\* characters long, holds none of the replaced characters and no two
\* consecutive '_', and does not begin with '_' or '.'.
C16_WellFormed ==
  /\ (npc = "write") => WellFormedName(fileName)
  /\ \A w \in written : WellFormedName(w.name)
  /\ \A r \in named : WellFormedName(r.name)

\* Within one run: a truncated name whose path began with a dot and held
\* replaced characters, a name with squeezed separators, and a fallback.
C16_Witness ==
  /\ npc = "leaf"
  /\ \E r \in Sanitised :
       /\ r.path = <<<<".">>, <<"/">>, <<":">>, LongKey>>
       /\ Len(r.name) = CutWidth
  /\ \E w \in written : NeedsFallback(safe_name(w.path[1], w.path[2], w.path[3], w.path[4]))

\* C14 (as claimed): when getComponentsAndData has returned for a page on which
\* the reveal or the read failed for some blocks but not all, the Group's
\* mapping holds the components of every other block of the page.
C14_PartialMapping ==
  (pc = "goBack" /\ failedBlocks[Here] # {}) =>
    GroupNode(Here) = MapNode(PageComponents \ failedBlocks[Here])

\* The steps of a Group follow each other in the order navigate, extract and
\* write, go back; the next Group's navigation starts from the loop head, after
\* the previous Group's go-back has settled or its error marker is in place.
GroupStepOrder ==
  /\ (pc = "gotoComponents") => pc' \in {"getComponents", "catchSubSection"}
  /\ (pc = "getComponents") => (pc' = "goBack" /\ writes'[Here] = writes[Here] + 1)
  /\ (pc = "goBack") => pc' \in {"forSubSection", "catchSubSection"}
  /\ (pc = "catchSubSection") => pc' = "forSubSection"
  /\ (pc' = "gotoComponents") =>
       /\ pc = "forSubSection"
       /\ \/ subSection = 0
          \/ outcome[Here] \in {"ok", "evalFail"}
          \/ \E msg \in {NavMsg, BackMsg} : GroupNode(Here) = ErrorNode(msg)

\* C15 (as claimed): at most one Category page is open at any moment; the steps
\* of the Groups are strictly ordered; and a go-back is never issued for a
\* Group whose navigation or extraction failed.
C15_Sequential ==
  /\ [](Cardinality(productPages) <= 1)
  /\ [][GroupStepOrder]_vars
  /\ []((pc = "goBack") => outcome[Here] = "none")

\* scrapeTailwindPlus has been left, by return or by an exception, with a
\* browser launched.
Left ==
  /\ pc \in {"processAndSaveResults", "mainCatch", "done", "exit"}
  /\ browser # "none"

\* C17 (as claimed): once scrapeTailwindPlus has been left, the browser it
\* launched is closed and was closed exactly once; and a Category page is
\* opened only when no earlier Category page is still open.
C17_Cleanup ==
  /\ [](Left => (browser = "closed" /\ browserCloses = 1))
  /\ [][productPages' # productPages => (productPages = {} \/ productPages' = {})]_vars
====
